---- MODULE Spec2Model ----
(***************************************************************************)
(* Cinema seat booking: the SQLite-backed engine (database.py) and the     *)
(* in-memory engine (server.py, CinemaBookingSystem), each called by       *)
(* concurrent request-handler threads.                                     *)
(*                                                                         *)
(* database.py: every thread owns its own connection (thread_local).  The  *)
(* connection is opened with the sqlite3 defaults: a SELECT runs outside   *)
(* any transaction and sees the committed database; the first UPDATE /     *)
(* INSERT / DELETE opens a transaction and takes the database write lock;  *)
(* get_db() commits on normal exit and rolls back on an exception.         *)
(***************************************************************************)
EXTENDS Integers, FiniteSets, Sequences, TLC

\* ---------------------------------------------------------------- bounds
MaxBookings == 2
Threads == {"t1", "t2"}
NoThread == "none"
\* the (movie_id, row, col) arguments callers pass: two seats of movie 1, one
\* of movie 2, a movie that does not exist (3), and four positions off the grid
ArgSeats ==
    {<<1, 0, 0>>, <<1, 4, 0>>, <<2, 0, 0>>, <<3, 0, 0>>}
        \cup {<<1, -1, 0>>, <<1, 5, 0>>, <<1, 0, -1>>, <<1, 0, 5>>}
\* the (row, col) arguments passed to the in-memory engine
ArgPositions == {<<a[2], a[3]>> : a \in ArgSeats}
Ann == [name |-> "Ann", email |-> "a@x.com", phone |-> "555"]
Bob == [name |-> "Bob", email |-> "b@y.org", phone |-> "777"]
Customers == {Ann, Bob}

\* ------------------------------------------------------- program constants
ROWS == 5
COLS == 5
MovieIds == {1, 2}
SeatsColumns == {"movie_id", "row", "col", "status"}
AVAILABLE == 0
BOOKED == 1

SeatKeys == MovieIds \X (0 .. ROWS - 1) \X (0 .. COLS - 1)
Cells == (0 .. ROWS - 1) \X (0 .. COLS - 1)

VARIABLES
    seats,      \* committed seats table: (movie_id, row, col) -> status
    bookings,   \* committed bookings table: a set of rows
    seq,        \* committed AUTOINCREMENT counter of bookings.id
    writer,     \* the thread whose connection holds the database write lock
    txn,        \* per thread: the open transaction's working copy, or NoTxn
    pc,         \* per thread: position inside the current call
    call,       \* per thread: operation and arguments of the current call
    fetched,    \* per thread: the row returned by the call's status SELECT
    ret,        \* per thread: the call's outcome
    seat_map,   \* CinemaBookingSystem.seat_map
    lock,       \* CinemaBookingSystem.lock: the holding thread, or NoThread
    wins,       \* per in-memory cell: number of book_seat calls that returned True
    out,        \* per thread: the value a read call returned
    last        \* history: the last call that returned (sequential runs), or the last crash

vars == <<seats, bookings, seq, writer, txn, pc, call, fetched, ret, seat_map, lock, wins, out, last>>
dbVars == <<seats, bookings, seq, writer, txn, fetched, out, last>>
memVars == <<seat_map, lock, wins>>

NoTxn == [open |-> FALSE]
NoCall == [op |-> "none"]
NoRow == <<>>
NoLast == [op |-> "none"]

\* an off-by-one bounds check: row 5 and col 5 pass
InRangeInclusive(row, col) == 0 <= row /\ row <= ROWS /\ 0 <= col /\ col <= COLS

\* `0 <= row < 5 and 0 <= col < 5`
InRange(row, col) == 0 <= row /\ row < ROWS /\ 0 <= col /\ col < COLS

\* SELECT status FROM seats WHERE movie_id = ? AND row = ? AND col = ?; fetchone()
SelectStatus(m, r, c) ==
    IF <<m, r, c>> \in DOMAIN seats THEN <<seats[<<m, r, c>>]>> ELSE NoRow

\* the rows of bookings for one cell, in a given bookings table
RecordsOf(tbl, m, r, c) == {b \in tbl : b.movie_id = m /\ b.row = r /\ b.col = c}

Init ==
    /\ seats = [k \in SeatKeys |-> AVAILABLE]
    /\ bookings = {}
    /\ seq = 0
    /\ writer = NoThread
    /\ txn = [t \in Threads |-> NoTxn]
    /\ pc = [t \in Threads |-> "idle"]
    /\ call = [t \in Threads |-> NoCall]
    /\ fetched = [t \in Threads |-> NoRow]
    /\ ret = [t \in Threads |-> "None"]
    /\ seat_map = [k \in Cells |-> 0]
    /\ lock = NoThread
    /\ wins = [k \in Cells |-> 0]
    /\ out = [t \in Threads |-> NoRow]
    /\ last = NoLast

\* ------------------------------------------------------------ get_db()
\* the transaction a connection opens with its first data-changing statement
Begin == [open |-> TRUE, seats |-> seats, bookings |-> bookings, seq |-> seq]

\* number of book calls that may still insert a row
InFlightBooks == Cardinality({t \in Threads : pc[t] \in {"book_select", "book_update", "book_insert", "book_commit"}})

\* History kept with a call for stating the properties of concurrent pairs: at the
\* moment the call starts, the committed status of its seat is `status` and
\* another thread is inside a call of the same operation on the same seat
\* (started, its transaction not yet committed).
Raced(t, op, m, r, c, status) ==
    /\ SelectStatus(m, r, c) = <<status>>
    /\ \E u \in Threads \ {t} :
          /\ call[u].op = op /\ pc[u] # "done"
          /\ call[u].movie_id = m /\ call[u].row = r /\ call[u].col = c

\* ------------------------------------------------------ database.book_seat
BookCall(t, m, r, c, cust) ==
    /\ pc[t] = "idle"
    /\ seq + InFlightBooks < MaxBookings
    /\ call' = [call EXCEPT ![t] = [op |-> "book", movie_id |-> m, row |-> r, col |-> c,
                                    customer |-> cust,
                                    raced |-> Raced(t, "book", m, r, c, AVAILABLE)]]
    /\ IF InRange(r, c)
         THEN /\ pc' = [pc EXCEPT ![t] = "book_select"]
              /\ ret' = ret
         ELSE /\ pc' = [pc EXCEPT ![t] = "done"]
              /\ ret' = [ret EXCEPT ![t] = "False"]
    /\ UNCHANGED <<dbVars, memVars>>

\* book_seat that only tests that the seat row exists, not its status
BookSelectAnyStatus(t) ==
    /\ pc[t] = "book_select"
    /\ LET result == SelectStatus(call[t].movie_id, call[t].row, call[t].col) IN
       /\ fetched' = [fetched EXCEPT ![t] = result]
       /\ IF result # NoRow
            THEN /\ pc' = [pc EXCEPT ![t] = "book_update"]
                 /\ ret' = ret
            ELSE /\ pc' = [pc EXCEPT ![t] = "done"]
                 /\ ret' = [ret EXCEPT ![t] = "False"]
    /\ UNCHANGED <<seats, bookings, seq, writer, txn, call, memVars, out, last>>

\* book_seat that takes a missing seat row for a free seat
BookSelectMissingRowOk(t) ==
    /\ pc[t] = "book_select"
    /\ LET result == SelectStatus(call[t].movie_id, call[t].row, call[t].col) IN
       /\ fetched' = [fetched EXCEPT ![t] = result]
       /\ IF result = NoRow \/ result[1] = 0
            THEN /\ pc' = [pc EXCEPT ![t] = "book_update"]
                 /\ ret' = ret
            ELSE /\ pc' = [pc EXCEPT ![t] = "done"]
                 /\ ret' = [ret EXCEPT ![t] = "False"]
    /\ UNCHANGED <<seats, bookings, seq, writer, txn, call, memVars, out, last>>

BookSelect(t) ==
    /\ pc[t] = "book_select"
    /\ LET result == SelectStatus(call[t].movie_id, call[t].row, call[t].col) IN
       /\ fetched' = [fetched EXCEPT ![t] = result]
       /\ IF result # NoRow /\ result[1] = 0
            THEN /\ pc' = [pc EXCEPT ![t] = "book_update"]
                 /\ ret' = ret
            ELSE /\ pc' = [pc EXCEPT ![t] = "done"]
                 /\ ret' = [ret EXCEPT ![t] = "False"]
    /\ UNCHANGED <<seats, bookings, seq, writer, txn, call, memVars, out, last>>

\* the first data-changing statement of a call: implicit BEGIN plus the write lock.
\* While another connection holds the lock the statement waits; when the
\* connection's busy timeout runs out it raises "database is locked".
\* book_seat whose UPDATE leaves movie_id out of its WHERE clause
BookUpdateAllMovies(t) ==
    /\ pc[t] = "book_update"
    /\ IF writer = NoThread
         THEN /\ writer' = t
              /\ txn' = [txn EXCEPT ![t] =
                     [Begin EXCEPT !.seats = [k \in SeatKeys |->
                         IF k[2] = call[t].row /\ k[3] = call[t].col THEN BOOKED ELSE seats[k]]]]
              /\ pc' = [pc EXCEPT ![t] = "book_insert"]
              /\ ret' = ret
         ELSE /\ pc' = [pc EXCEPT ![t] = "done"]
              /\ ret' = [ret EXCEPT ![t] = "Raised"]
              /\ UNCHANGED <<writer, txn>>
    /\ UNCHANGED <<seats, bookings, seq, call, fetched, memVars, out, last>>

\* book_seat on a connection in autocommit mode: the UPDATE is durable at once
BookUpdateAutocommit(t) ==
    /\ pc[t] = "book_update"
    /\ IF writer = NoThread
         THEN /\ writer' = t
              /\ seats' = [seats EXCEPT ![<<call[t].movie_id, call[t].row, call[t].col>>] = BOOKED]
              /\ txn' = [txn EXCEPT ![t] =
                     [Begin EXCEPT !.seats[<<call[t].movie_id, call[t].row, call[t].col>>] = BOOKED]]
              /\ pc' = [pc EXCEPT ![t] = "book_insert"]
              /\ ret' = ret
         ELSE /\ pc' = [pc EXCEPT ![t] = "done"]
              /\ ret' = [ret EXCEPT ![t] = "Raised"]
              /\ UNCHANGED <<seats, writer, txn>>
    /\ UNCHANGED <<bookings, seq, call, fetched, memVars, out, last>>

\* book_seat whose UPDATE counts the bookings: SET status = status + 1
BookUpdateCounts(t) ==
    /\ pc[t] = "book_update"
    /\ IF writer = NoThread
         THEN /\ writer' = t
              /\ txn' = [txn EXCEPT ![t] =
                     [Begin EXCEPT !.seats[<<call[t].movie_id, call[t].row, call[t].col>>] = @ + 1]]
              /\ pc' = [pc EXCEPT ![t] = "book_insert"]
              /\ ret' = ret
         ELSE /\ pc' = [pc EXCEPT ![t] = "done"]
              /\ ret' = [ret EXCEPT ![t] = "Raised"]
              /\ UNCHANGED <<writer, txn>>
    /\ UNCHANGED <<seats, bookings, seq, call, fetched, memVars, out, last>>

BookUpdate(t) ==
    /\ pc[t] = "book_update"
    /\ IF writer = NoThread
         THEN /\ writer' = t
              /\ txn' = [txn EXCEPT ![t] =
                     [Begin EXCEPT !.seats[<<call[t].movie_id, call[t].row, call[t].col>>] = BOOKED]]
              /\ pc' = [pc EXCEPT ![t] = "book_insert"]
              /\ ret' = ret
         ELSE /\ pc' = [pc EXCEPT ![t] = "done"]
              /\ ret' = [ret EXCEPT ![t] = "Raised"]
              /\ UNCHANGED <<writer, txn>>
    /\ UNCHANGED <<seats, bookings, seq, call, fetched, memVars, out, last>>

\* a bookings table whose id is a plain INTEGER PRIMARY KEY: the new id is one
\* more than the largest id in the table, so the id of a deleted row comes back
NewBookingReusedId(id, c) ==
    [id |-> IF bookings = {} THEN 1
            ELSE (CHOOSE n \in {b.id : b \in bookings} : \A b \in bookings : b.id <= n) + 1,
     movie_id |-> c.movie_id, row |-> c.row, col |-> c.col,
     customer_name |-> c.customer.name, customer_email |-> c.customer.email,
     customer_phone |-> c.customer.phone]

\* INSERT INTO bookings (...) VALUES (...): id comes from the AUTOINCREMENT counter
NewBooking(id, c) ==
    [id |-> id, movie_id |-> c.movie_id, row |-> c.row, col |-> c.col,
     customer_name |-> c.customer.name, customer_email |-> c.customer.email,
     customer_phone |-> c.customer.phone]

BookInsert(t) ==
    /\ pc[t] = "book_insert"
    /\ txn' = [txn EXCEPT ![t].bookings = @ \cup {NewBooking(txn[t].seq + 1, call[t])},
                          ![t].seq = @ + 1]
    /\ pc' = [pc EXCEPT ![t] = "book_commit"]
    /\ UNCHANGED <<seats, bookings, seq, writer, call, fetched, ret, memVars, out, last>>

\* `return True` leaves the with-block: conn.commit()
BookCommit(t) ==
    /\ pc[t] = "book_commit"
    /\ seats' = txn[t].seats
    /\ bookings' = txn[t].bookings
    /\ seq' = txn[t].seq
    /\ writer' = NoThread
    /\ txn' = [txn EXCEPT ![t] = NoTxn]
    /\ pc' = [pc EXCEPT ![t] = "done"]
    /\ ret' = [ret EXCEPT ![t] = "True"]
    /\ UNCHANGED <<call, fetched, memVars, out, last>>

\* -------------------------------------------------- database.cancel_booking
CancelCall(t, m, r, c) ==
    /\ pc[t] = "idle"
    /\ call' = [call EXCEPT ![t] = [op |-> "cancel", movie_id |-> m, row |-> r, col |-> c,
                                    raced |-> Raced(t, "cancel", m, r, c, BOOKED)]]
    /\ IF InRange(r, c)
         THEN /\ pc' = [pc EXCEPT ![t] = "cancel_select"]
              /\ ret' = ret
         ELSE /\ pc' = [pc EXCEPT ![t] = "done"]
              /\ ret' = [ret EXCEPT ![t] = "False"]
    /\ UNCHANGED <<dbVars, memVars>>

\* cancel_booking that only tests that the seat row exists, not its status
CancelSelectAnyStatus(t) ==
    /\ pc[t] = "cancel_select"
    /\ LET result == SelectStatus(call[t].movie_id, call[t].row, call[t].col) IN
       /\ fetched' = [fetched EXCEPT ![t] = result]
       /\ IF result # NoRow
            THEN /\ pc' = [pc EXCEPT ![t] = "cancel_update"]
                 /\ ret' = ret
            ELSE /\ pc' = [pc EXCEPT ![t] = "done"]
                 /\ ret' = [ret EXCEPT ![t] = "False"]
    /\ UNCHANGED <<seats, bookings, seq, writer, txn, call, memVars, out, last>>

CancelSelect(t) ==
    /\ pc[t] = "cancel_select"
    /\ LET result == SelectStatus(call[t].movie_id, call[t].row, call[t].col) IN
       /\ fetched' = [fetched EXCEPT ![t] = result]
       /\ IF result # NoRow /\ result[1] = 1
            THEN /\ pc' = [pc EXCEPT ![t] = "cancel_update"]
                 /\ ret' = ret
            ELSE /\ pc' = [pc EXCEPT ![t] = "done"]
                 /\ ret' = [ret EXCEPT ![t] = "False"]
    /\ UNCHANGED <<seats, bookings, seq, writer, txn, call, memVars, out, last>>

CancelUpdate(t) ==
    /\ pc[t] = "cancel_update"
    /\ IF writer = NoThread
         THEN /\ writer' = t
              /\ txn' = [txn EXCEPT ![t] =
                     [Begin EXCEPT !.seats[<<call[t].movie_id, call[t].row, call[t].col>>] = AVAILABLE]]
              /\ pc' = [pc EXCEPT ![t] = "cancel_delete"]
              /\ ret' = ret
         ELSE /\ pc' = [pc EXCEPT ![t] = "done"]
              /\ ret' = [ret EXCEPT ![t] = "Raised"]
              /\ UNCHANGED <<writer, txn>>
    /\ UNCHANGED <<seats, bookings, seq, call, fetched, memVars, out, last>>

\* cancel_booking that frees the seat and leaves the booking rows in place
CancelDeleteNothing(t) ==
    /\ pc[t] = "cancel_delete"
    /\ pc' = [pc EXCEPT ![t] = "cancel_commit"]
    /\ UNCHANGED <<seats, bookings, seq, writer, txn, call, fetched, ret, memVars, out, last>>

\* cancel_booking whose DELETE names the movie only: WHERE movie_id = ?
CancelDeleteWholeMovie(t) ==
    /\ pc[t] = "cancel_delete"
    /\ txn' = [txn EXCEPT ![t].bookings = {b \in @ : b.movie_id # call[t].movie_id}]
    /\ pc' = [pc EXCEPT ![t] = "cancel_commit"]
    /\ UNCHANGED <<seats, bookings, seq, writer, call, fetched, ret, memVars, out, last>>

\* DELETE FROM bookings WHERE movie_id = ? AND row = ? AND col = ?
CancelDelete(t) ==
    /\ pc[t] = "cancel_delete"
    /\ txn' = [txn EXCEPT ![t].bookings =
                 @ \ RecordsOf(@, call[t].movie_id, call[t].row, call[t].col)]
    /\ pc' = [pc EXCEPT ![t] = "cancel_commit"]
    /\ UNCHANGED <<seats, bookings, seq, writer, call, fetched, ret, memVars, out, last>>

CancelCommit(t) ==
    /\ pc[t] = "cancel_commit"
    /\ seats' = txn[t].seats
    /\ bookings' = txn[t].bookings
    /\ seq' = txn[t].seq
    /\ writer' = NoThread
    /\ txn' = [txn EXCEPT ![t] = NoTxn]
    /\ pc' = [pc EXCEPT ![t] = "done"]
    /\ ret' = [ret EXCEPT ![t] = "True"]
    /\ UNCHANGED <<call, fetched, memVars, out, last>>

\* -------------------------------------------------- database.reset_all_seats
\* UPDATE seats SET status = 0, booked_at = NULL
ResetColumns == {"status", "booked_at"}

\* The statement is compiled against the seats schema before it runs: a column
\* the table does not have makes execute() raise, get_db() rolls back and
\* re-raises.  Otherwise every seat row gets status 0 and the call commits.
reset_all_seats(t) ==
    /\ pc[t] = "idle"
    /\ call' = [call EXCEPT ![t] = [op |-> "reset"]]
    /\ pc' = [pc EXCEPT ![t] = "done"]
    /\ IF ResetColumns \subseteq SeatsColumns
         THEN /\ writer = NoThread
              /\ seats' = [k \in DOMAIN seats |-> AVAILABLE]
              /\ ret' = [ret EXCEPT ![t] = "True"]
         ELSE /\ seats' = seats
              /\ ret' = [ret EXCEPT ![t] = "Raised"]
    /\ UNCHANGED <<bookings, seq, writer, txn, fetched, memVars, out, last>>

\* app.py /api/reset: 200 success unless reset_all_seats raised, then 500
reset_seats(outcome) ==
    IF outcome = "Raised" THEN [success |-> FALSE, status |-> 500]
                          ELSE [success |-> TRUE, status |-> 200]

\* ------------------------------------------------------------- reads
\* get_seats_by_movie: a 5x5 matrix of zeros overwritten by the rows found
get_seats_by_movie(m) ==
    [k \in Cells |-> IF <<m, k[1], k[2]>> \in DOMAIN seats THEN seats[<<m, k[1], k[2]>>] ELSE 0]

\* get_booking_details: the rows the query finds (fetchone() returns one of them, None if empty)
get_booking_details(m, r, c) ==
    {b \in RecordsOf(bookings, m, r, c) : b.movie_id \in MovieIds}

\* a read that also sees the rows of a transaction still open on another connection
DetailsCallDirty(t, m, r, c) ==
    /\ pc[t] = "idle"
    /\ call' = [call EXCEPT ![t] = [op |-> "details", movie_id |-> m, row |-> r, col |-> c]]
    /\ pc' = [pc EXCEPT ![t] = "done"]
    /\ ret' = [ret EXCEPT ![t] = "Returned"]
    /\ LET tbl == IF writer = NoThread THEN bookings ELSE txn[writer].bookings
           rows == {b \in RecordsOf(tbl, m, r, c) : b.movie_id \in MovieIds}
       IN IF rows = {}
            THEN out' = [out EXCEPT ![t] = NoRow]
            ELSE \E b \in rows : out' = [out EXCEPT ![t] = <<b>>]
    /\ UNCHANGED <<seats, bookings, seq, writer, txn, fetched, memVars, last>>

\* get_booking_details as a call: one SELECT on the committed tables, then
\* fetchone(): None when no row matches, else one of the matching rows (the
\* query has no ORDER BY)
DetailsCall(t, m, r, c) ==
    /\ pc[t] = "idle"
    /\ call' = [call EXCEPT ![t] = [op |-> "details", movie_id |-> m, row |-> r, col |-> c]]
    /\ pc' = [pc EXCEPT ![t] = "done"]
    /\ ret' = [ret EXCEPT ![t] = "Returned"]
    /\ IF get_booking_details(m, r, c) = {}
         THEN out' = [out EXCEPT ![t] = NoRow]
         ELSE \E b \in get_booking_details(m, r, c) : out' = [out EXCEPT ![t] = <<b>>]
    /\ UNCHANGED <<seats, bookings, seq, writer, txn, fetched, memVars, last>>

\* get_seats_by_movie as a call: one SELECT on the committed seats table
SeatsCall(t, m) ==
    /\ pc[t] = "idle"
    /\ call' = [call EXCEPT ![t] = [op |-> "seats", movie_id |-> m]]
    /\ pc' = [pc EXCEPT ![t] = "done"]
    /\ ret' = [ret EXCEPT ![t] = "Returned"]
    /\ out' = [out EXCEPT ![t] = <<get_seats_by_movie(m)>>]
    /\ UNCHANGED <<seats, bookings, seq, writer, txn, fetched, memVars, last>>

\* app.py /api/seats/<movie_id>: the grid with success true
get_seats(grid) == [success |-> TRUE, status |-> 200, seats |-> grid]

\* ------------------------------------------- CinemaBookingSystem.book_seat
MemBookCall(t, r, c) ==
    /\ pc[t] = "idle"
    /\ call' = [call EXCEPT ![t] = [op |-> "mem_book", row |-> r, col |-> c]]
    /\ IF InRange(r, c)
         THEN /\ pc' = [pc EXCEPT ![t] = "m_acquire"]
              /\ ret' = ret
         ELSE /\ pc' = [pc EXCEPT ![t] = "done"]
              /\ ret' = [ret EXCEPT ![t] = "False"]
    /\ UNCHANGED <<dbVars, memVars>>

\* book_seat entering the section without waiting for the lock
MemAcquireNoWait(t) ==
    /\ pc[t] = "m_acquire"
    /\ lock' = t
    /\ pc' = [pc EXCEPT ![t] = "m_test"]
    /\ UNCHANGED <<dbVars, call, ret, seat_map, wins>>

\* self.lock.acquire(): blocks while another thread holds the lock
MemAcquire(t) ==
    /\ pc[t] = "m_acquire"
    /\ lock = NoThread
    /\ lock' = t
    /\ pc' = [pc EXCEPT ![t] = "m_test"]
    /\ UNCHANGED <<dbVars, call, ret, seat_map, wins>>

\* if self.seat_map[row][col] == 0
MemTest(t) ==
    /\ pc[t] = "m_test"
    /\ IF seat_map[<<call[t].row, call[t].col>>] = 0
         THEN /\ pc' = [pc EXCEPT ![t] = "m_write"]
              /\ ret' = ret
         ELSE /\ pc' = [pc EXCEPT ![t] = "m_release"]
              /\ ret' = [ret EXCEPT ![t] = "False"]
    /\ UNCHANGED <<dbVars, call, memVars>>

\* self.seat_map[row][col] = 1; return True
MemWrite(t) ==
    /\ pc[t] = "m_write"
    /\ seat_map' = [seat_map EXCEPT ![<<call[t].row, call[t].col>>] = 1]
    /\ wins' = [wins EXCEPT ![<<call[t].row, call[t].col>>] = @ + 1]
    /\ ret' = [ret EXCEPT ![t] = "True"]
    /\ pc' = [pc EXCEPT ![t] = "m_release"]
    /\ UNCHANGED <<dbVars, call, lock>>

\* book_seat leaving the section without releasing the lock
MemReleaseKeepsLock(t) ==
    /\ pc[t] = "m_release"
    /\ pc' = [pc EXCEPT ![t] = "done"]
    /\ UNCHANGED <<dbVars, call, ret, memVars>>

\* finally: self.lock.release()
MemRelease(t) ==
    /\ pc[t] = "m_release"
    /\ lock' = NoThread
    /\ pc' = [pc EXCEPT ![t] = "done"]
    /\ UNCHANGED <<dbVars, call, ret, seat_map, wins>>

\* ------------------------------------------------------------ the caller
Return(t) ==
    /\ pc[t] = "done"
    /\ pc' = [pc EXCEPT ![t] = "idle"]
    /\ call' = [call EXCEPT ![t] = NoCall]
    /\ fetched' = [fetched EXCEPT ![t] = NoRow]
    /\ ret' = [ret EXCEPT ![t] = "None"]
    /\ out' = [out EXCEPT ![t] = NoRow]
    /\ UNCHANGED <<seats, bookings, seq, writer, txn, memVars, last>>

\* the database engine
Next ==
    \/ \E t \in Threads, a \in ArgSeats, cust \in Customers :
          BookCall(t, a[1], a[2], a[3], cust)
    \/ \E t \in Threads : BookSelect(t)
    \/ \E t \in Threads : BookUpdate(t)
    \/ \E t \in Threads : BookInsert(t)
    \/ \E t \in Threads : BookCommit(t)
    \/ \E t \in Threads, a \in ArgSeats : CancelCall(t, a[1], a[2], a[3])
    \/ \E t \in Threads : CancelSelect(t)
    \/ \E t \in Threads : CancelUpdate(t)
    \/ \E t \in Threads : CancelDelete(t)
    \/ \E t \in Threads : CancelCommit(t)
    \/ \E t \in Threads : reset_all_seats(t)
    \/ \E t \in Threads : Return(t)

Spec == Init /\ [][Next]_vars

\* the database engine with its read calls
NextRead ==
    \/ Next
    \/ \E t \in Threads, a \in ArgSeats : DetailsCall(t, a[1], a[2], a[3])
    \/ \E t \in Threads, a \in ArgSeats : SeatsCall(t, a[1])

SpecRead == Init /\ [][NextRead]_vars

\* the in-memory engine
NextMem ==
    \/ \E t \in Threads, p \in ArgPositions : MemBookCall(t, p[1], p[2])
    \/ \E t \in Threads : MemAcquire(t)
    \/ \E t \in Threads : MemTest(t)
    \/ \E t \in Threads : MemWrite(t)
    \/ \E t \in Threads : MemRelease(t)
    \/ \E t \in Threads : Return(t)

SpecMem == Init /\ [][NextMem]_vars

\* ------------------------------------------- CinemaBookingSystem.get_seat_map
\* the cells of the grid in the order a reader of the nested list meets them
CellAt(i) == <<(i - 1) \div COLS, (i - 1) % COLS>>
IndexOf(k) == k[1] * COLS + k[2] + 1

\* get_seat_map returns self.seat_map itself, without the lock: nothing is
\* copied yet when the method returns
MemSeatsCall(t) ==
    /\ pc[t] = "idle"
    /\ call' = [call EXCEPT ![t] = [op |-> "mem_seats"]]
    /\ pc' = [pc EXCEPT ![t] = "m_marshal"]
    /\ out' = [out EXCEPT ![t] = <<>>]
    /\ UNCHANGED <<seats, bookings, seq, writer, txn, fetched, ret, memVars, last>>

\* the request thread writes the returned list into the XML-RPC answer, one
\* cell after the other, while other request threads run
MemMarshal(t) ==
    /\ pc[t] = "m_marshal"
    /\ out' = [out EXCEPT ![t] = Append(@, seat_map[CellAt(Len(@) + 1)])]
    /\ IF Len(out[t]) + 1 = ROWS * COLS
         THEN /\ pc' = [pc EXCEPT ![t] = "done"]
              /\ ret' = [ret EXCEPT ![t] = "Returned"]
         ELSE /\ pc' = [pc EXCEPT ![t] = "m_marshal"]
              /\ ret' = ret
    /\ UNCHANGED <<seats, bookings, seq, writer, txn, call, fetched, memVars, last>>

\* the in-memory engine with its read call
NextMemRead ==
    \/ NextMem
    \/ \E t \in Threads : MemSeatsCall(t)
    \/ \E t \in Threads : MemMarshal(t)

SpecMemRead == Init /\ [][NextMemRead]_vars

\* ------------------------------------------- exceptions inside the section
\* print(f"[FAILED] ...") raises (standard output closed): the exception
\* leaves the try block through `finally`
MemLogFailedRaises(t) ==
    /\ pc[t] = "m_test"
    /\ seat_map[<<call[t].row, call[t].col>>] # 0
    /\ pc' = [pc EXCEPT ![t] = "m_release"]
    /\ ret' = [ret EXCEPT ![t] = "Raised"]
    /\ UNCHANGED <<dbVars, call, memVars>>

\* print(f"[SUCCESS] ...") raises after the cell has been written
MemLogSuccessRaises(t) ==
    /\ pc[t] = "m_write"
    /\ seat_map' = [seat_map EXCEPT ![<<call[t].row, call[t].col>>] = 1]
    /\ ret' = [ret EXCEPT ![t] = "Raised"]
    /\ pc' = [pc EXCEPT ![t] = "m_release"]
    /\ UNCHANGED <<dbVars, call, lock, wins>>

\* the in-memory engine with exceptions inside its section
NextMemFault ==
    \/ NextMem
    \/ \E t \in Threads : MemLogFailedRaises(t)
    \/ \E t \in Threads : MemLogSuccessRaises(t)

SpecMemFault == Init /\ [][NextMemFault]_vars

\* ------------------------------------------------ one call at a time
\* no other thread is inside a call or holds an unreturned result
Quiet(t) == \A u \in Threads \ {t} : pc[u] = "idle"

\* the caller takes the result; the history remembers the call
SeqReturn(t) ==
    /\ pc[t] = "done"
    /\ last' = [op |-> call[t].op, call |-> call[t], ret |-> ret[t]]
    /\ pc' = [pc EXCEPT ![t] = "idle"]
    /\ call' = [call EXCEPT ![t] = NoCall]
    /\ fetched' = [fetched EXCEPT ![t] = NoRow]
    /\ ret' = [ret EXCEPT ![t] = "None"]
    /\ out' = [out EXCEPT ![t] = NoRow]
    /\ UNCHANGED <<seats, bookings, seq, writer, txn, memVars>>

\* the database engine called sequentially: a call starts only after the
\* previous one has returned
NextSeq ==
    \/ \E t \in Threads, a \in ArgSeats, cust \in Customers :
          Quiet(t) /\ BookCall(t, a[1], a[2], a[3], cust)
    \/ \E t \in Threads : BookSelect(t)
    \/ \E t \in Threads : BookUpdate(t)
    \/ \E t \in Threads : BookInsert(t)
    \/ \E t \in Threads : BookCommit(t)
    \/ \E t \in Threads, a \in ArgSeats : Quiet(t) /\ CancelCall(t, a[1], a[2], a[3])
    \/ \E t \in Threads : CancelSelect(t)
    \/ \E t \in Threads : CancelUpdate(t)
    \/ \E t \in Threads : CancelDelete(t)
    \/ \E t \in Threads : CancelCommit(t)
    \/ \E t \in Threads : Quiet(t) /\ reset_all_seats(t)
    \/ \E t \in Threads : SeqReturn(t)

SpecSeq == Init /\ [][NextSeq]_vars

\* the book operation of both engines, side by side
NextBook ==
    \/ \E t \in Threads, a \in ArgSeats, cust \in Customers :
          BookCall(t, a[1], a[2], a[3], cust)
    \/ \E t \in Threads : BookSelect(t)
    \/ \E t \in Threads : BookUpdate(t)
    \/ \E t \in Threads : BookInsert(t)
    \/ \E t \in Threads : BookCommit(t)
    \/ NextMem

SpecBook == Init /\ [][NextBook]_vars

\* two seats of movie 1 and two cells of the in-memory grid
FrameSeats == {<<1, 0, 0>>, <<1, 4, 0>>}
FramePositions == {<<0, 0>>, <<4, 0>>}

\* ------------------------------------------------ crash and restart
\* The process dies: every thread, every connection and every open transaction
\* is gone; what was committed stays in the database file.
Crash ==
    /\ last.op # "crash"
    /\ last' = [op |-> "crash", lost |-> {t \in Threads : txn[t].open}]
    /\ writer' = NoThread
    /\ txn' = [t \in Threads |-> NoTxn]
    /\ pc' = [t \in Threads |-> "crashed"]
    /\ call' = [t \in Threads |-> NoCall]
    /\ fetched' = [t \in Threads |-> NoRow]
    /\ ret' = [t \in Threads |-> "None"]
    /\ out' = [t \in Threads |-> NoRow]
    /\ UNCHANGED <<seats, bookings, seq, memVars>>

\* an init_database that inserts the seat rows of every movie at each start
init_database_always(s) == [k \in SeatKeys |-> AVAILABLE]

\* init_database fills the seats table only when it has no row
init_database(s) == IF DOMAIN s = {} THEN [k \in SeatKeys |-> AVAILABLE] ELSE s

\* the server starts again on the database file
Restart ==
    /\ last.op = "crash"
    /\ seats' = init_database(seats)
    /\ pc' = [t \in Threads |-> "idle"]
    /\ last' = NoLast
    /\ UNCHANGED <<bookings, seq, writer, txn, call, fetched, ret, out, memVars>>

NextCrash ==
    \/ Next
    \/ Crash
    \/ Restart

SpecCrash == Init /\ [][NextCrash]_vars

\* ------------------------------------------------ the first start
\* no server is running and the database file has no row yet
InitEmpty ==
    /\ seats = [k \in {} |-> AVAILABLE]
    /\ bookings = {}
    /\ seq = 0
    /\ writer = NoThread
    /\ txn = [t \in Threads |-> NoTxn]
    /\ pc = [t \in Threads |-> "crashed"]
    /\ call = [t \in Threads |-> NoCall]
    /\ fetched = [t \in Threads |-> NoRow]
    /\ ret = [t \in Threads |-> "None"]
    /\ seat_map = [k \in Cells |-> 0]
    /\ lock = NoThread
    /\ wins = [k \in Cells |-> 0]
    /\ out = [t \in Threads |-> NoRow]
    /\ last = [op |-> "crash", lost |-> {}]

\* the server starts: init_database() runs before any request is served; the
\* history remembers whether it found seat rows
Start ==
    /\ last.op = "crash"
    /\ seats' = init_database(seats)
    /\ pc' = [t \in Threads |-> "idle"]
    /\ last' = [op |-> "start", populated |-> DOMAIN seats # {}]
    /\ UNCHANGED <<bookings, seq, writer, txn, call, fetched, ret, out, memVars>>

\* the database engine from its first start on, with crashes and restarts
NextStart ==
    \/ Start
    \/ Crash
    \/ \E t \in Threads, a \in FrameSeats : BookCall(t, a[1], a[2], a[3], Ann)
    \/ \E t \in Threads : BookSelect(t)
    \/ \E t \in Threads : BookUpdate(t)
    \/ \E t \in Threads : BookInsert(t)
    \/ \E t \in Threads : BookCommit(t)
    \/ \E t \in Threads, a \in FrameSeats : CancelCall(t, a[1], a[2], a[3])
    \/ \E t \in Threads : CancelSelect(t)
    \/ \E t \in Threads : CancelUpdate(t)
    \/ \E t \in Threads : CancelDelete(t)
    \/ \E t \in Threads : CancelCommit(t)
    \/ \E t \in Threads : Return(t)

SpecStart == InitEmpty /\ [][NextStart]_vars

\* ------------------------------------------------ storage failures
\* the INSERT raises (disk full, I/O error): get_db() rolls back and re-raises
BookInsertFailsCommits(t) ==
    /\ pc[t] = "book_insert"
    /\ seats' = txn[t].seats
    /\ writer' = NoThread
    /\ txn' = [txn EXCEPT ![t] = NoTxn]
    /\ pc' = [pc EXCEPT ![t] = "done"]
    /\ ret' = [ret EXCEPT ![t] = "StorageError"]
    /\ UNCHANGED <<bookings, seq, call, fetched, memVars, out, last>>

BookInsertFails(t) ==
    /\ pc[t] = "book_insert"
    /\ writer' = NoThread
    /\ txn' = [txn EXCEPT ![t] = NoTxn]
    /\ pc' = [pc EXCEPT ![t] = "done"]
    /\ ret' = [ret EXCEPT ![t] = "StorageError"]
    /\ UNCHANGED <<seats, bookings, seq, call, fetched, memVars, out, last>>

\* the DELETE raises
CancelDeleteFails(t) ==
    /\ pc[t] = "cancel_delete"
    /\ writer' = NoThread
    /\ txn' = [txn EXCEPT ![t] = NoTxn]
    /\ pc' = [pc EXCEPT ![t] = "done"]
    /\ ret' = [ret EXCEPT ![t] = "StorageError"]
    /\ UNCHANGED <<seats, bookings, seq, call, fetched, memVars, out, last>>

\* conn.commit() fails and the failure is swallowed: the call still returns True
BookCommitFailsSilently(t) ==
    /\ pc[t] = "book_commit"
    /\ writer' = NoThread
    /\ txn' = [txn EXCEPT ![t] = NoTxn]
    /\ pc' = [pc EXCEPT ![t] = "done"]
    /\ ret' = [ret EXCEPT ![t] = "True"]
    /\ UNCHANGED <<seats, bookings, seq, call, fetched, memVars, out, last>>

\* conn.commit() raises on the way out of the with-block: the `return True`
\* never reaches the caller, get_db() rolls back and re-raises
BookCommitFails(t) ==
    /\ pc[t] = "book_commit"
    /\ writer' = NoThread
    /\ txn' = [txn EXCEPT ![t] = NoTxn]
    /\ pc' = [pc EXCEPT ![t] = "done"]
    /\ ret' = [ret EXCEPT ![t] = "CommitError"]
    /\ UNCHANGED <<seats, bookings, seq, call, fetched, memVars, out, last>>

CancelCommitFails(t) ==
    /\ pc[t] = "cancel_commit"
    /\ writer' = NoThread
    /\ txn' = [txn EXCEPT ![t] = NoTxn]
    /\ pc' = [pc EXCEPT ![t] = "done"]
    /\ ret' = [ret EXCEPT ![t] = "CommitError"]
    /\ UNCHANGED <<seats, bookings, seq, call, fetched, memVars, out, last>>

\* the database engine on a storage that can fail
NextFault ==
    \/ Next
    \/ \E t \in Threads : BookInsertFails(t)
    \/ \E t \in Threads : CancelDeleteFails(t)
    \/ \E t \in Threads : BookCommitFails(t)
    \/ \E t \in Threads : CancelCommitFails(t)

SpecFault == Init /\ [][NextFault]_vars

\* ------------------------------------------------ progress of the calls
\* seats and positions of the calls whose progress is followed
FairSeats == {<<1, 0, 0>>, <<2, 0, 0>>, <<1, 5, 0>>}
FairPositions == {<<0, 0>>, <<5, 0>>}

\* the statements of thread t that run as soon as the thread is scheduled
Proceed(t) ==
    \/ BookSelect(t)
    \/ BookUpdate(t)
    \/ BookInsert(t)
    \/ BookCommit(t)
    \/ CancelSelect(t)
    \/ CancelUpdate(t)
    \/ CancelDelete(t)
    \/ CancelCommit(t)
    \/ MemTest(t)
    \/ MemWrite(t)
    \/ MemRelease(t)

\* both engines, storage failures and exceptions included
NextFair ==
    \/ \E t \in Threads, a \in FairSeats : BookCall(t, a[1], a[2], a[3], Ann)
    \/ \E t \in Threads, a \in FairSeats : CancelCall(t, a[1], a[2], a[3])
    \/ \E t \in Threads, p \in FairPositions : MemBookCall(t, p[1], p[2])
    \/ \E t \in Threads : Proceed(t)
    \/ \E t \in Threads : MemAcquire(t)
    \/ \E t \in Threads : BookInsertFails(t)
    \/ \E t \in Threads : CancelDeleteFails(t)
    \/ \E t \in Threads : BookCommitFails(t)
    \/ \E t \in Threads : CancelCommitFails(t)
    \/ \E t \in Threads : MemLogFailedRaises(t)
    \/ \E t \in Threads : MemLogSuccessRaises(t)
    \/ \E t \in Threads : Return(t)

\* a fair scheduler: a thread that can run does run, and a thread waiting for
\* the lock gets it if the lock is free again and again
SpecFair ==
    /\ Init
    /\ [][NextFair]_vars
    /\ \A t \in Threads : WF_vars(Proceed(t)) /\ SF_vars(MemAcquire(t))

\* ------------------------------------------------ both engines, with reads
\* seats and positions of the calls on the two grids
GridSeats == {<<1, 0, 0>>, <<3, 0, 0>>}
GridPositions == {<<0, 0>>}

NextGrid ==
    \/ \E t \in Threads, a \in GridSeats : BookCall(t, a[1], a[2], a[3], Ann)
    \/ \E t \in Threads, a \in GridSeats : CancelCall(t, a[1], a[2], a[3])
    \/ \E t \in Threads, a \in GridSeats : SeatsCall(t, a[1])
    \/ \E t \in Threads, p \in GridPositions : MemBookCall(t, p[1], p[2])
    \/ \E t \in Threads : MemSeatsCall(t)
    \/ \E t \in Threads : Proceed(t)
    \/ \E t \in Threads : MemAcquire(t)
    \/ \E t \in Threads : MemMarshal(t)
    \/ \E t \in Threads : Return(t)

SpecGrid == Init /\ [][NextGrid]_vars

\* ------------------------------------------------ two cells of one grid
NextFrame ==
    \/ \E t \in Threads, a \in FrameSeats : BookCall(t, a[1], a[2], a[3], Ann)
    \/ \E t \in Threads, a \in FrameSeats : CancelCall(t, a[1], a[2], a[3])
    \/ \E t \in Threads, p \in FramePositions : MemBookCall(t, p[1], p[2])
    \/ \E t \in Threads : Proceed(t)
    \/ \E t \in Threads : MemAcquire(t)
    \/ \E t \in Threads : Return(t)

SpecFrame == Init /\ [][NextFrame]_vars

\* ------------------------------------------------ cancel calls with history
\* the status SELECT of cancel_booking as CancelSelect, the call remembering
\* how many booking ids had been issued when it read the status (`issued`):
\* rows with a larger id were created after the read
CancelSelectIssued(t) ==
    /\ pc[t] = "cancel_select"
    /\ call' = [call EXCEPT ![t] =
                  [op |-> "cancel", movie_id |-> call[t].movie_id,
                   row |-> call[t].row, col |-> call[t].col,
                   raced |-> call[t].raced, issued |-> seq]]
    /\ LET result == SelectStatus(call[t].movie_id, call[t].row, call[t].col) IN
       /\ fetched' = [fetched EXCEPT ![t] = result]
       /\ IF result # NoRow /\ result[1] = 1
            THEN /\ pc' = [pc EXCEPT ![t] = "cancel_update"]
                 /\ ret' = ret
            ELSE /\ pc' = [pc EXCEPT ![t] = "done"]
                 /\ ret' = [ret EXCEPT ![t] = "False"]
    /\ UNCHANGED <<seats, bookings, seq, writer, txn, memVars, out, last>>

NextIssued ==
    \/ \E t \in Threads, a \in ArgSeats, cust \in Customers :
          BookCall(t, a[1], a[2], a[3], cust)
    \/ \E t \in Threads : BookSelect(t)
    \/ \E t \in Threads : BookUpdate(t)
    \/ \E t \in Threads : BookInsert(t)
    \/ \E t \in Threads : BookCommit(t)
    \/ \E t \in Threads, a \in ArgSeats : CancelCall(t, a[1], a[2], a[3])
    \/ \E t \in Threads : CancelSelectIssued(t)
    \/ \E t \in Threads : CancelUpdate(t)
    \/ \E t \in Threads : CancelDelete(t)
    \/ \E t \in Threads : CancelCommit(t)
    \/ \E t \in Threads : Return(t)

SpecIssued == Init /\ [][NextIssued]_vars

\* ------------------------------------------------ the booking facades
\* Text is a sequence of characters, so that strip() has something to do.
A == <<"A">>
Blank == <<" ">>
Padded == <<" ", "A", " ">>

\* str.strip(): leading and trailing whitespace removed
RECURSIVE lstrip(_)
lstrip(s) == IF s # <<>> /\ Head(s) = " " THEN lstrip(Tail(s)) ELSE s

RECURSIVE rstrip(_)
rstrip(s) == IF s # <<>> /\ s[Len(s)] = " " THEN rstrip(SubSeq(s, 1, Len(s) - 1)) ELSE s

strip(s) == rstrip(lstrip(s))

\* a value of a JSON body: data.get(key) gives None for a key that is absent
None == [kind |-> "none", n |-> 0, s |-> <<>>]
Num(n) == [kind |-> "num", n |-> n, s |-> <<>>]
Str(s) == [kind |-> "str", n |-> 0, s |-> s]

\* Python truth value, as all([...]) and `not x` test it
Truthy(v) ==
    CASE v.kind = "none" -> FALSE
      [] v.kind = "num" -> v.n # 0
      [] v.kind = "str" -> v.s # <<>>

Req(m, r, c, name, email, phone) ==
    [movie_id |-> m, row |-> r, col |-> c,
     customer_name |-> name, customer_email |-> email, customer_phone |-> phone]

\* bodies POSTed to /api/book: a complete one, and ones with a key absent or
\* a text empty
HttpBodies ==
    { Req(Num(1), Num(0), Num(0), Str(A), Str(A), Str(A)),
      Req(None, Num(0), Num(0), Str(A), Str(A), Str(A)),
      Req(Num(1), None, Num(0), Str(A), Str(A), Str(A)),
      Req(Num(1), Num(0), None, Str(A), Str(A), Str(A)),
      Req(Num(1), Num(0), Num(0), None, Str(A), Str(A)),
      Req(Num(1), Num(0), Num(0), Str(<<>>), Str(A), Str(A)),
      Req(Num(1), Num(0), Num(0), Str(A), Str(<<>>), Str(A)),
      Req(Num(1), Num(0), Num(0), Str(A), Str(A), Str(<<>>)),
      Req(Num(1), Num(5), Num(0), Str(A), Str(A), Str(A)),
      Req(Num(3), Num(0), Num(0), Str(A), Str(A), Str(A)),
      Req(Num(2), Num(4), Num(0), Str(Padded), Str(A), Str(A)) }

\* argument lists of XML-RPC book_seat calls: integers and texts, some empty
RpcArgs ==
    { Req(Num(1), Num(0), Num(0), Str(A), Str(A), Str(A)),
      Req(Num(1), Num(0), Num(0), Str(<<>>), Str(A), Str(A)),
      Req(Num(2), Num(0), Num(0), Str(A), Str(A), Str(<<>>)) }

\* what the booking dialog holds when its button is pressed: the seat clicked
\* on and the three entry fields
GuiForms ==
    { Req(Num(1), Num(0), Num(0), Str(Padded), Str(A), Str(A)),
      Req(Num(1), Num(0), Num(0), Str(<<>>), Str(A), Str(A)),
      Req(Num(2), Num(0), Num(0), Str(A), Str(Blank), Str(A)),
      Req(Num(2), Num(0), Num(0), Str(A), Str(A), Str(<<>>)) }

\* the facade answers without calling the engine
Reject(t, via, req) ==
    /\ call' = [call EXCEPT ![t] = [op |-> "rejected", via |-> via, req |-> req]]
    /\ pc' = [pc EXCEPT ![t] = "done"]
    /\ ret' = [ret EXCEPT ![t] = "Rejected"]

\* the facade calls database.book_seat(m, r, c, name, email, phone)
Invoke(t, via, req, m, r, c, cust) ==
    /\ seq + InFlightBooks < MaxBookings
    /\ call' = [call EXCEPT ![t] = [op |-> "book", movie_id |-> m, row |-> r, col |-> c,
                                    customer |-> cust,
                                    raced |-> Raced(t, "book", m, r, c, AVAILABLE),
                                    via |-> via, req |-> req]]
    /\ IF InRange(r, c)
         THEN /\ pc' = [pc EXCEPT ![t] = "book_select"]
              /\ ret' = ret
         ELSE /\ pc' = [pc EXCEPT ![t] = "done"]
              /\ ret' = [ret EXCEPT ![t] = "False"]

\* /api/book testing the truth value of row and col: all([movie_id, row, col, ...])
HttpBookTruthyPosition(t, req) ==
    /\ pc[t] = "idle"
    /\ IF /\ Truthy(req.movie_id)
          /\ Truthy(req.row)
          /\ Truthy(req.col)
          /\ Truthy(req.customer_name)
          /\ Truthy(req.customer_email)
          /\ Truthy(req.customer_phone)
         THEN Invoke(t, "http", req, req.movie_id.n, req.row.n, req.col.n,
                     [name |-> req.customer_name.s, email |-> req.customer_email.s,
                      phone |-> req.customer_phone.s])
         ELSE Reject(t, "http", req)
    /\ UNCHANGED <<dbVars, memVars>>

\* POST /api/book
HttpBook(t, req) ==
    /\ pc[t] = "idle"
    /\ IF /\ Truthy(req.movie_id)
          /\ req.row # None
          /\ req.col # None
          /\ Truthy(req.customer_name)
          /\ Truthy(req.customer_email)
          /\ Truthy(req.customer_phone)
         THEN Invoke(t, "http", req, req.movie_id.n, req.row.n, req.col.n,
                     [name |-> req.customer_name.s, email |-> req.customer_email.s,
                      phone |-> req.customer_phone.s])
         ELSE Reject(t, "http", req)
    /\ UNCHANGED <<dbVars, memVars>>

\* the JSON answer and HTTP status of /api/book for the outcome of the call
book_seat_response(outcome) ==
    CASE outcome = "True" -> [success |-> TRUE, status |-> 200]
      [] outcome \in {"False", "Rejected"} -> [success |-> FALSE, status |-> 400]
      [] OTHER -> [success |-> FALSE, status |-> 500]

\* CinemaBookingRPC.book_seat
RpcBook(t, req) ==
    /\ pc[t] = "idle"
    /\ Invoke(t, "rpc", req, req.movie_id.n, req.row.n, req.col.n,
              [name |-> req.customer_name.s, email |-> req.customer_email.s,
               phone |-> req.customer_phone.s])
    /\ UNCHANGED <<dbVars, memVars>>

\* the GUI's submit_booking, which calls book_seat over XML-RPC
GuiSubmit(t, req) ==
    /\ pc[t] = "idle"
    /\ LET name == strip(req.customer_name.s)
           email == strip(req.customer_email.s)
           phone == strip(req.customer_phone.s)
       IN IF name = <<>> \/ email = <<>> \/ phone = <<>>
            THEN Reject(t, "gui", req)
            ELSE Invoke(t, "gui", req, req.movie_id.n, req.row.n, req.col.n,
                        [name |-> name, email |-> email, phone |-> phone])
    /\ UNCHANGED <<dbVars, memVars>>

\* book requests arriving through the three facades
NextFacade ==
    \/ \E t \in Threads, req \in HttpBodies : HttpBook(t, req)
    \/ \E t \in Threads, req \in RpcArgs : RpcBook(t, req)
    \/ \E t \in Threads, req \in GuiForms : GuiSubmit(t, req)
    \/ \E t \in Threads : BookSelect(t)
    \/ \E t \in Threads : BookUpdate(t)
    \/ \E t \in Threads : BookInsert(t)
    \/ \E t \in Threads : BookCommit(t)
    \/ \E t \in Threads : Return(t)

SpecFacade == Init /\ [][NextFacade]_vars

\* ------------------------------------------------ the HTTP answers
\* bodies POSTed to /api/cancel
CancelReq(m, r, c) == [movie_id |-> m, row |-> r, col |-> c]

CancelBodies ==
    { CancelReq(Num(1), Num(0), Num(0)),
      CancelReq(Num(1), Num(5), Num(0)),
      CancelReq(Num(3), Num(0), Num(0)),
      CancelReq(Num(1), None, Num(0)) }

\* POST /api/cancel
HttpCancel(t, req) ==
    /\ pc[t] = "idle"
    /\ IF req.movie_id = None \/ req.row = None \/ req.col = None
         THEN Reject(t, "http_cancel", req)
         ELSE /\ call' = [call EXCEPT ![t] =
                    [op |-> "cancel", movie_id |-> req.movie_id.n,
                     row |-> req.row.n, col |-> req.col.n,
                     raced |-> Raced(t, "cancel", req.movie_id.n, req.row.n, req.col.n, BOOKED),
                     via |-> "http_cancel", req |-> req]]
              /\ IF InRange(req.row.n, req.col.n)
                   THEN /\ pc' = [pc EXCEPT ![t] = "cancel_select"]
                        /\ ret' = ret
                   ELSE /\ pc' = [pc EXCEPT ![t] = "done"]
                        /\ ret' = [ret EXCEPT ![t] = "False"]
    /\ UNCHANGED <<dbVars, memVars>>

\* str(e) of the exception a call ended with
ExceptionText(outcome) ==
    CASE outcome = "Raised" -> "database is locked"
      [] outcome = "StorageError" -> "disk I/O error"
      [] outcome = "CommitError" -> "database or disk is full"

\* the JSON body and HTTP status /api/book answers with; `arg` is the text
\* put into the message
book_seat_answer(outcome, customer_name) ==
    CASE outcome = "Rejected" ->
           [success |-> FALSE, status |-> 400,
            message |-> "All fields are required", arg |-> <<>>]
      [] outcome = "True" ->
           [success |-> TRUE, status |-> 200,
            message |-> "Seat booked successfully for {customer_name}!", arg |-> customer_name]
      [] outcome = "False" ->
           [success |-> FALSE, status |-> 400,
            message |-> "Seat already booked or invalid position", arg |-> <<>>]
      [] OTHER ->
           [success |-> FALSE, status |-> 500,
            message |-> ExceptionText(outcome), arg |-> <<>>]

\* the JSON body and HTTP status /api/cancel answers with
cancel_seat_answer(outcome) ==
    CASE outcome = "Rejected" ->
           [success |-> FALSE, status |-> 400,
            message |-> "Movie ID, row and column are required", arg |-> <<>>]
      [] outcome = "True" ->
           [success |-> TRUE, status |-> 200,
            message |-> "Booking cancelled successfully!", arg |-> <<>>]
      [] outcome = "False" ->
           [success |-> FALSE, status |-> 400,
            message |-> "Seat is not booked or invalid position", arg |-> <<>>]
      [] OTHER ->
           [success |-> FALSE, status |-> 500,
            message |-> ExceptionText(outcome), arg |-> <<>>]

\* what the HTTP client of thread t receives for its finished request
Answer(t) ==
    IF call[t].via = "http_cancel"
      THEN cancel_seat_answer(ret[t])
      ELSE book_seat_answer(ret[t],
              IF call[t].op = "book" THEN call[t].customer.name ELSE <<>>)

\* the HTTP routes /api/book and /api/cancel on a storage that can fail
NextHttp ==
    \/ \E t \in Threads, req \in HttpBodies : HttpBook(t, req)
    \/ \E t \in Threads, req \in CancelBodies : HttpCancel(t, req)
    \/ \E t \in Threads : BookSelect(t)
    \/ \E t \in Threads : BookUpdate(t)
    \/ \E t \in Threads : BookInsert(t)
    \/ \E t \in Threads : BookCommit(t)
    \/ \E t \in Threads : CancelSelect(t)
    \/ \E t \in Threads : CancelUpdate(t)
    \/ \E t \in Threads : CancelDelete(t)
    \/ \E t \in Threads : CancelCommit(t)
    \/ \E t \in Threads : BookInsertFails(t)
    \/ \E t \in Threads : BookCommitFails(t)
    \/ \E t \in Threads : Return(t)

SpecHttp == Init /\ [][NextHttp]_vars

\* ======================================================================
\* Properties
\* ======================================================================
\* position outside the 5 x 5 grid, as the claims state it
OffGrid(row, col) == row < 0 \/ row >= 5 \/ col < 0 \/ col >= 5

SameSeat(t, u) ==
    /\ call[t].movie_id = call[u].movie_id
    /\ call[t].row = call[u].row
    /\ call[t].col = call[u].col

\* two finished calls of operation op on one seat, the later one started while
\* the earlier was still running and the seat's committed status was the one
\* the operation needs; both returned a value
ConcurrentPair(t, u, op) ==
    /\ t # u
    /\ call[t].op = op /\ call[u].op = op
    /\ pc[t] = "done" /\ pc[u] = "done"
    /\ ~OffGrid(call[t].row, call[t].col)
    /\ SameSeat(t, u)
    /\ call[u].raced
    /\ ret[t] \in {"True", "False"} /\ ret[u] \in {"True", "False"}

\* C1: of two concurrent database.book_seat calls on the same seat, the seat
\* AVAILABLE while both are running, exactly one returns True and the other
\* returns False.
C1_ExactlyOneBookWins ==
    \A t, u \in Threads :
        ConcurrentPair(t, u, "book") =>
            \/ ret[t] = "True" /\ ret[u] = "False"
            \/ ret[t] = "False" /\ ret[u] = "True"

\* C2: in CinemaBookingSystem at most one book_seat call per cell ever returns
\* True, the cell is 1 exactly when one did, and a call that returned False on
\* a cell of the grid means another call won that cell.
C2_AtMostOneWinnerPerCell ==
    /\ \A k \in Cells : wins[k] <= 1 /\ wins[k] = seat_map[k]
    /\ \A t \in Threads :
          (call[t].op = "mem_book" /\ pc[t] = "done" /\ ~OffGrid(call[t].row, call[t].col)
             /\ ret[t] = "False")
          => wins[<<call[t].row, call[t].col>>] = 1
    /\ \A t, u \in Threads :
          (t # u /\ call[t].op = "mem_book" /\ call[u].op = "mem_book"
             /\ ret[t] = "True" /\ ret[u] = "True")
          => <<call[t].row, call[t].col>> # <<call[u].row, call[u].col>>

\* two in-memory calls on one cell have both finished: one True, one False
C2_Witness ==
    \E t, u \in Threads :
        /\ t # u
        /\ call[t].op = "mem_book" /\ call[u].op = "mem_book"
        /\ pc[t] = "done" /\ pc[u] = "done"
        /\ call[t].row = call[u].row /\ call[t].col = call[u].col
        /\ ret[t] = "True" /\ ret[u] = "False"

\* C3: in every committed state of the database a seat is BOOKED if and only
\* if at least one booking row exists for it.
C3_BookedIffRecord ==
    \A k \in SeatKeys :
        (seats[k] = BOOKED) <=> (RecordsOf(bookings, k[1], k[2], k[3]) # {})

\* a cancel has committed on one seat while another seat is BOOKED
C3_Witness ==
    /\ \E t \in Threads : call[t].op = "cancel" /\ pc[t] = "done" /\ ret[t] = "True"
    /\ \E k \in SeatKeys : seats[k] = BOOKED

\* C4: the bookings table holds exactly one row for every BOOKED seat and no
\* row for an AVAILABLE seat.
C4_OneRecordPerBookedSeat ==
    \A k \in SeatKeys :
        Cardinality(RecordsOf(bookings, k[1], k[2], k[3])) = (IF seats[k] = BOOKED THEN 1 ELSE 0)

\* C5: of two concurrent database.cancel_booking calls on the same BOOKED
\* seat exactly one returns True and the other returns False.
C5_ExactlyOneCancelWins ==
    \A t, u \in Threads :
        ConcurrentPair(t, u, "cancel") =>
            \/ ret[t] = "True" /\ ret[u] = "False"
            \/ ret[t] = "False" /\ ret[u] = "True"

\* C6: a reset_all_seats call leaves every seat AVAILABLE and the bookings
\* table empty.
C6_ResetClearsAll ==
    [][(\E t \in Threads : call[t].op # "reset" /\ call'[t].op = "reset")
          => /\ \A k \in SeatKeys : seats'[k] = AVAILABLE
             /\ bookings' = {}]_vars

\* C7: reset_all_seats always returns True and /api/reset answers success.
C7_ResetNeverFails ==
    \A t \in Threads :
        (call[t].op = "reset" /\ pc[t] = "done")
        => ret[t] = "True" /\ reset_seats(ret[t]).success

\* C8: book with a position outside the grid returns False in both engines,
\* changes no seat, no booking row and no cell of seat_map, and never reaches
\* a statement that reads or writes the state.
C8_OffGridBookRejected ==
    /\ [](\A t \in Threads :
            (call[t].op \in {"book", "mem_book"} /\ OffGrid(call[t].row, call[t].col))
            => pc[t] = "done" /\ ret[t] = "False")
    /\ [][\A t \in Threads :
            (call'[t].op \in {"book", "mem_book"} /\ OffGrid(call'[t].row, call'[t].col)
               /\ (pc[t] # pc'[t]))
            => UNCHANGED <<dbVars, memVars>>]_vars

\* off-grid book calls have been rejected by both engines while a seat is
\* BOOKED in the database and a cell is taken in memory
C8_Witness ==
    /\ \E t \in Threads :
          call[t].op = "book" /\ OffGrid(call[t].row, call[t].col) /\ ret[t] = "False"
    /\ \E t \in Threads :
          call[t].op = "mem_book" /\ OffGrid(call[t].row, call[t].col) /\ ret[t] = "False"
    /\ \E k \in SeatKeys : seats[k] = BOOKED
    /\ \E k \in Cells : seat_map[k] = 1

\* C9: a database.book_seat call that finds its seat BOOKED returns False and
\* changes nothing: no seat status, no booking row (so the existing row keeps
\* its customer), no transaction opened.
C9_BookOnBookedNoChange ==
    /\ [](\A t \in Threads :
            (call[t].op = "book" /\ fetched[t] = <<BOOKED>>)
            => pc[t] = "done" /\ ret[t] = "False" /\ txn[t] = NoTxn)
    /\ [][\A t \in Threads :
            (call[t].op = "book" /\ pc[t] # pc'[t]
               /\ (fetched'[t] = <<BOOKED>> \/ fetched[t] = <<BOOKED>>))
            => UNCHANGED <<seats, bookings, seq, writer, txn>>]_vars

\* a book call for Bob was refused on a seat whose only row is Ann's
C9_Witness ==
    \E t \in Threads :
        /\ call[t].op = "book" /\ pc[t] = "done" /\ ret[t] = "False"
        /\ fetched[t] = <<BOOKED>>
        /\ call[t].customer = Bob
        /\ \E b \in RecordsOf(bookings, call[t].movie_id, call[t].row, call[t].col) :
              b.customer_name = Ann.name /\ b.customer_email = Ann.email
                  /\ b.customer_phone = Ann.phone

\* C10: database.cancel_booking with a position outside the grid, or on a
\* seat it finds AVAILABLE, returns False and changes no seat status and no
\* booking row.
C10_CancelRejectedNoChange ==
    /\ [](\A t \in Threads :
            (call[t].op = "cancel"
               /\ (OffGrid(call[t].row, call[t].col) \/ fetched[t] = <<AVAILABLE>>))
            => pc[t] = "done" /\ ret[t] = "False" /\ txn[t] = NoTxn)
    /\ [][\A t \in Threads :
            (call'[t].op = "cancel" /\ pc[t] # pc'[t]
               /\ (OffGrid(call'[t].row, call'[t].col) \/ fetched'[t] = <<AVAILABLE>>))
            => UNCHANGED <<seats, bookings, seq, writer, txn>>]_vars

\* cancel was refused once for an off-grid position and once on an AVAILABLE
\* seat, while some other seat is BOOKED
C10_Witness ==
    /\ \E t \in Threads :
          call[t].op = "cancel" /\ OffGrid(call[t].row, call[t].col) /\ ret[t] = "False"
    /\ \E t \in Threads :
          call[t].op = "cancel" /\ fetched[t] = <<AVAILABLE>> /\ ret[t] = "False"
    /\ \E k \in SeatKeys : seats[k] = BOOKED

\* the previous call was a successful op on the seat of t's call
LastWas(t, op) ==
    /\ last.op = op /\ last.ret = "True"
    /\ last.call.movie_id = call[t].movie_id
    /\ last.call.row = call[t].row /\ last.call.col = call[t].col

\* C11: with calls made one after the other, book_seat returns True exactly
\* when the seat was AVAILABLE and leaves it BOOKED, so a second book_seat on
\* the same seat returns False; cancel_booking returns True exactly when the
\* seat was BOOKED and leaves it AVAILABLE, so a second cancel returns False.
C11_SequentialTrueThenFalse ==
    \A t \in Threads :
        (pc[t] = "done" /\ call[t].op \in {"book", "cancel"}
           /\ ~OffGrid(call[t].row, call[t].col))
        => LET k == <<call[t].movie_id, call[t].row, call[t].col>>
               from == IF call[t].op = "book" THEN AVAILABLE ELSE BOOKED
               to == IF call[t].op = "book" THEN BOOKED ELSE AVAILABLE
           IN /\ ret[t] \in {"True", "False"}
              /\ (ret[t] = "True") <=> (fetched[t] = <<from>>)
              /\ ret[t] = "True" => seats[k] = to
              /\ LastWas(t, call[t].op) => ret[t] = "False"
              /\ (k \in SeatKeys /\ LastWas(t, IF call[t].op = "book" THEN "cancel" ELSE "book"))
                    => ret[t] = "True"

\* book twice on one seat, one call after the other, gave True then False
C11_Witness ==
    \E t \in Threads :
        /\ pc[t] = "done" /\ call[t].op = "book" /\ ret[t] = "False"
        /\ LastWas(t, "book")
        /\ seats[<<call[t].movie_id, call[t].row, call[t].col>>] = BOOKED

\* the row carries exactly the arguments of the book call c
RowOfCall(b, c) ==
    /\ b.movie_id = c.movie_id /\ b.row = c.row /\ b.col = c.col
    /\ b.customer_name = c.customer.name
    /\ b.customer_email = c.customer.email
    /\ b.customer_phone = c.customer.phone

\* C12: at the moment a book_seat call succeeds, get_booking_details of its
\* seat returns a row with exactly the movie, row, col, name, email and phone
\* passed to the call; at the moment a cancel_booking call succeeds,
\* get_booking_details of its seat returns nothing.
C12_RoundTrip ==
    [][\A t \in Threads :
         /\ (pc[t] = "book_commit" /\ pc'[t] = "done" /\ ret'[t] = "True")
            => /\ get_booking_details(call[t].movie_id, call[t].row, call[t].col)' # {}
               /\ \A b \in get_booking_details(call[t].movie_id, call[t].row, call[t].col)' :
                     RowOfCall(b, call[t])
         /\ (pc[t] = "cancel_commit" /\ pc'[t] = "done" /\ ret'[t] = "True")
            => get_booking_details(call[t].movie_id, call[t].row, call[t].col)' = {}]_vars

\* C13: get_booking_details returns a row if and only if the seat is BOOKED at
\* the instant of the read, also between the steps of concurrent book and
\* cancel calls; it never returns a row for an AVAILABLE seat.
C13_DetailsIffBooked ==
    /\ [](\A a \in ArgSeats :
            (get_booking_details(a[1], a[2], a[3]) # {})
               <=> (SelectStatus(a[1], a[2], a[3]) = <<BOOKED>>))
    /\ [][\A t \in Threads :
            (pc[t] = "idle" /\ call'[t].op = "details")
            => LET m == call'[t].movie_id
                   r == call'[t].row
                   c == call'[t].col
               IN /\ (out'[t] # NoRow) <=> (SelectStatus(m, r, c) = <<BOOKED>>)
                  /\ out'[t] # NoRow => out'[t][1] \in RecordsOf(bookings, m, r, c)]_vars

\* a read returned the row of a BOOKED seat while a cancel of that seat had
\* already deleted it inside its open transaction
C13_Witness ==
    \E t, u \in Threads :
        /\ call[t].op = "details" /\ pc[t] = "done" /\ out[t] # NoRow
        /\ call[u].op = "cancel" /\ pc[u] = "cancel_commit"
        /\ call[u].movie_id = call[t].movie_id
        /\ call[u].row = call[t].row /\ call[u].col = call[t].col

AllAvailable(grid) == \A k \in Cells : grid[k] = AVAILABLE

\* C19: the answer to a seat-grid request for a movie that does not exist
\* differs from the answer for an existing movie whose seats are all AVAILABLE.
C19_UnknownShowingDistinguishable ==
    \A t, u \in Threads :
        (/\ call[t].op = "seats" /\ call[u].op = "seats"
         /\ call[t].movie_id \notin MovieIds /\ call[u].movie_id \in MovieIds
         /\ AllAvailable(out[u][1]))
        => get_seats(out[t][1]) # get_seats(out[u][1])

\* C20: book_seat, cancel_booking and get_booking_details with a movie id that
\* does not exist return False / None, never raise, never open a transaction,
\* and no seat row or booking row for such an id ever exists.
C20_UnknownShowingFails ==
    /\ DOMAIN seats = SeatKeys
    /\ \A b \in bookings : b.movie_id \in {1, 2}
    /\ \A t \in Threads :
          (call[t].op \in {"book", "cancel", "details"} /\ call[t].movie_id \notin {1, 2})
          => /\ pc[t] \in {"book_select", "cancel_select", "done"}
             /\ txn[t] = NoTxn
             /\ pc[t] = "done" =>
                  IF call[t].op = "details"
                    THEN out[t] = NoRow /\ ret[t] = "Returned"
                    ELSE ret[t] = "False"

\* book_seat and get_booking_details were both called for movie 3 and failed,
\* while a seat of an existing movie is BOOKED
C20_Witness ==
    /\ \E t \in Threads :
          call[t].op = "book" /\ call[t].movie_id = 3 /\ pc[t] = "done" /\ ret[t] = "False"
    /\ \E t \in Threads :
          call[t].op = "details" /\ call[t].movie_id = 3 /\ pc[t] = "done" /\ out[t] = NoRow
    /\ \E k \in SeatKeys : seats[k] = BOOKED

\* C14: a book or cancel on a seat of one movie never changes the seat status
\* or the booking rows of any seat of another movie, neither in the database
\* nor inside the call's open transaction.
C14_IsolationAcrossShowings ==
    /\ [](\A t \in Threads :
            txn[t].open => \A k \in SeatKeys :
               k[1] # call[t].movie_id
               => /\ txn[t].seats[k] = seats[k]
                  /\ RecordsOf(txn[t].bookings, k[1], k[2], k[3])
                       = RecordsOf(bookings, k[1], k[2], k[3]))
    /\ [][\A t \in Threads :
            (call[t].op \in {"book", "cancel"} /\ pc'[t] # pc[t])
            => \A k \in SeatKeys :
                 k[1] # call[t].movie_id
                 => /\ seats'[k] = seats[k]
                    /\ RecordsOf(bookings', k[1], k[2], k[3])
                         = RecordsOf(bookings, k[1], k[2], k[3])]_vars

\* seat (0, 0) of movie 2 is BOOKED with its row, and a book of seat (0, 0) of
\* movie 1 has just succeeded
C14_Witness ==
    /\ seats[<<2, 0, 0>>] = BOOKED
    /\ Cardinality(RecordsOf(bookings, 2, 0, 0)) = 1
    /\ \E t \in Threads :
          /\ call[t].op = "book" /\ pc[t] = "done" /\ ret[t] = "True"
          /\ call[t].movie_id = 1 /\ call[t].row = 0 /\ call[t].col = 0

HasRecord(tbl, k) == RecordsOf(tbl, k[1], k[2], k[3]) # {}

\* C15: the seat-status write and the booking-row write of a call reach the
\* database in one commit: every step, a crash included, changes a seat's
\* status exactly when it changes whether the seat has a booking row, and the
\* database found after a crash has a seat BOOKED exactly when it has a row.
C15_CrashAtomicity ==
    /\ [](last.op = "crash"
            => \A k \in SeatKeys : (seats[k] = BOOKED) <=> HasRecord(bookings, k))
    /\ [][\A k \in SeatKeys :
            (seats'[k] # seats[k]) <=> (HasRecord(bookings', k) # HasRecord(bookings, k))]_vars

\* the process crashed while a transaction was open, and a seat is BOOKED
C15_Witness ==
    /\ last.op = "crash"
    /\ last.lost # {}
    /\ \E k \in SeatKeys : seats[k] = BOOKED

\* C16: book_seat and cancel_booking return True only on the step that commits
\* their transaction, so a call holding True has no open transaction and its
\* changes are in the database; a failed commit never yields True.
C16_SuccessOnlyAfterCommit ==
    /\ [](\A t \in Threads :
            (call[t].op \in {"book", "cancel"} /\ ret[t] = "True")
            => pc[t] = "done" /\ txn[t] = NoTxn /\ writer # t)
    /\ [][\A t \in Threads :
            (call[t].op \in {"book", "cancel"} /\ ret'[t] = "True" /\ ret[t] # "True")
            => /\ txn[t].open
               /\ seats' = txn[t].seats
               /\ bookings' = txn[t].bookings]_vars

\* one book_seat returned True after its commit and another one lost its
\* commit and raised
C16_Witness ==
    \E t, u \in Threads :
        /\ call[t].op = "book" /\ pc[t] = "done" /\ ret[t] = "True"
        /\ NewBooking(1, call[t]) \in bookings
        /\ call[u].op = "book" /\ pc[u] = "done" /\ ret[u] = "CommitError"

Failed(t) == ret[t] \in {"StorageError", "CommitError", "Raised"}

\* C17: a storage failure after the seat UPDATE rolls the transaction back: no
\* step of a call other than its successful commit changes seats, bookings or
\* the id counter, and a call that raised holds no transaction and no lock.
C17_FailureRollsBack ==
    /\ [](\A t \in Threads : Failed(t) => txn[t] = NoTxn /\ writer # t)
    /\ [][\A t \in Threads :
            (pc'[t] # pc[t] /\ ~(pc'[t] = "done" /\ ret'[t] = "True"))
            => seats' = seats /\ bookings' = bookings /\ seq' = seq]_vars

\* a book_seat failed at its INSERT on a seat that is still AVAILABLE, and a
\* cancel_booking failed at its DELETE
C17_Witness ==
    \E t, u \in Threads :
        /\ call[t].op = "book" /\ ret[t] = "StorageError"
        /\ seats[<<call[t].movie_id, call[t].row, call[t].col>>] = AVAILABLE
        /\ call[u].op = "cancel" /\ ret[u] = "StorageError"

\* one of the six arguments is absent or an empty text
Incomplete(req) ==
    \E f \in DOMAIN req : req[f].kind = "none" \/ (req[f].kind = "str" /\ req[f].s = <<>>)

\* C18: a book request with an absent or empty argument is answered with a
\* failure and database.book_seat is never called for it, whichever facade
\* (HTTP, XML-RPC, GUI) it came through.
C18_FacadeRejectsIncomplete ==
    \A t \in Threads :
        (call[t].op \in {"book", "rejected"} /\ Incomplete(call[t].req))
        => /\ call[t].op = "rejected"
           /\ ~book_seat_response(ret[t]).success

\* the failure kind of the finished HTTP request of thread t
FailureKind(t) ==
    CASE call[t].op = "rejected" -> "ValidationFailed"
      [] call[t].op \in {"book", "cancel"} /\ ret[t] = "False" ->
           IF OffGrid(call[t].row, call[t].col) THEN "InvalidPosition"
           ELSE IF call[t].movie_id \notin {1, 2} THEN "UnknownShowing"
           ELSE IF call[t].op = "book" THEN "SeatTaken" ELSE "NotBooked"
      [] OTHER -> "none"

ViaHttp(t) == pc[t] = "done" /\ call[t].via \in {"http", "http_cancel"}

\* C21: two HTTP requests that failed for different reasons (invalid position,
\* seat taken, not booked, unknown movie, validation) get different answers.
C21_FailureKindsDistinguishable ==
    \A t, u \in Threads :
        (/\ ViaHttp(t) /\ ViaHttp(u)
         /\ FailureKind(t) # "none" /\ FailureKind(u) # "none"
         /\ FailureKind(t) # FailureKind(u))
        => Answer(t) # Answer(u)

\* C22: two HTTP requests that ended in an internal exception get the same
\* answer, whatever the exception was.
C22_GenericInternalFailure ==
    \A t, u \in Threads :
        (/\ ViaHttp(t) /\ ViaHttp(u)
         /\ ret[t] \in {"Raised", "StorageError", "CommitError"}
         /\ ret[u] \in {"Raised", "StorageError", "CommitError"})
        => Answer(t) = Answer(u)

\* the grid thread t received from get_seat_map
Received(t) == [k \in Cells |-> out[t][IndexOf(k)]]

\* C23: the grid a get_seat_map call yields is the grid of one instant.  With
\* one other thread booking, a grid that shows that thread's latest booking
\* shows every booking made before it.
C23_SnapshotAtOneInstant ==
    \A t, u \in Threads :
        (/\ call[t].op = "mem_seats" /\ pc[t] = "done"
         /\ call[u].op = "mem_book" /\ ret[u] = "True"
         /\ Received(t)[<<call[u].row, call[u].col>>] = 1)
        => \A k \in Cells : seat_map[k] = 1 => Received(t)[k] = 1

\* thread t has reached its UPDATE while another connection holds the write
\* transaction: its statement waits for that transaction to end
Waiting(t) == pc[t] \in {"book_update", "cancel_update"} /\ writer # NoThread

\* C24: a book or cancel waits only behind a call on its own movie, never
\* behind a call on a different movie.
C24_ShowingsNeverBlock ==
    \A t \in Threads : Waiting(t) => call[writer].movie_id = call[t].movie_id

InCall(t) == pc[t] \notin {"idle", "done"}

C26_RaceDecidedByAcquisition ==
    [][\A t, u \in Threads :
         (/\ t # u
          /\ call[t].op = "book" /\ call[u].op = "book"
          /\ SameSeat(t, u)
          /\ call[t].raced \/ call[u].raced
          /\ pc[u] = "done" /\ ret[u] = "True"
          /\ writer = t)
         => ret'[t] # "True"]_vars

\* C27: a booking row is never changed in place: every row a step adds has an
\* id larger than every id issued before, ids are unique, and a row that
\* stays in the table stays as it is.
C27_RecordsNeverMutated ==
    /\ [](\A b \in bookings : b.id >= 1 /\ b.id <= seq)
    /\ [](\A b1, b2 \in bookings : b1.id = b2.id => b1 = b2)
    /\ [][/\ seq' >= seq
          /\ \A b \in bookings' \ bookings : b.id > seq
          /\ \A b \in bookings' : b.id <= seq => b \in bookings]_vars

\* book, cancel, book on one seat: the cancel has returned True, and
\* get_booking_details now returns the row of the second book, with id 2
C27_Witness ==
    \E t, u \in Threads :
        /\ call[u].op = "cancel" /\ pc[u] = "done" /\ ret[u] = "True"
        /\ call[t].op = "details" /\ pc[t] = "done" /\ out[t] # NoRow
        /\ call[t].movie_id = call[u].movie_id
        /\ call[t].row = call[u].row /\ call[t].col = call[u].col
        /\ out[t][1].id = 2
        /\ bookings = {out[t][1]}

FiveByFive == (0 .. 4) \X (0 .. 4)
Binary(g) == \A k \in DOMAIN g : g[k] \in {0, 1}

\* C28: in both engines every cell holds 0 or 1 and each grid has 5 x 5 cells,
\* also inside an open transaction; every grid a read returns is 5 x 5 over
\* {0, 1}.
C28_GridIsFiveByFiveBinary ==
    /\ DOMAIN seat_map = FiveByFive /\ Binary(seat_map)
    /\ \A m \in {1, 2} : {<<k[2], k[3]>> : k \in {x \in DOMAIN seats : x[1] = m}} = FiveByFive
    /\ Binary(seats)
    /\ \A t \in Threads : txn[t].open => Binary(txn[t].seats)
    /\ \A m \in {1, 2, 3} :
          DOMAIN get_seats_by_movie(m) = FiveByFive /\ Binary(get_seats_by_movie(m))
    /\ \A t \in Threads :
          (call[t].op = "seats" /\ pc[t] = "done")
          => DOMAIN out[t][1] = FiveByFive /\ Binary(out[t][1])
    /\ \A t \in Threads :
          call[t].op = "mem_seats"
          => /\ Binary(out[t])
             /\ Len(out[t]) <= 25
             /\ pc[t] = "done" => Len(out[t]) = 25

\* both engines have a booked cell and a read of each engine has returned a
\* grid that shows it
C28_Witness ==
    \E t, u \in Threads :
        /\ call[t].op = "seats" /\ pc[t] = "done" /\ out[t][1][<<0, 0>>] = 1
        /\ call[u].op = "mem_seats" /\ pc[u] = "done" /\ out[u][1] = 1
        /\ seats[<<1, 0, 0>>] = BOOKED /\ seat_map[<<0, 0>>] = 1

\* C29: a booking row leaves the table only by the commit of a cancel_booking
\* call that returns True and that read the seat status after the row was
\* created; the seat of a row is BOOKED as long as the row is there.
C29_BookingStaysUntilLaterCancel ==
    /\ [](\A b \in bookings : seats[<<b.movie_id, b.row, b.col>>] = BOOKED)
    /\ [][\A b \in bookings \ bookings' :
            \E t \in Threads :
               /\ call[t].op = "cancel"
               /\ pc[t] = "cancel_commit" /\ pc'[t] = "done" /\ ret'[t] = "True"
               /\ b.id <= call[t].issued]_vars

\* thread t is between lock.acquire() and lock.release()
InSection(t) == pc[t] \in {"m_test", "m_write", "m_release"}

\* C30: in CinemaBookingSystem at most one thread is inside the section, the
\* lock is held exactly by the thread inside, every way out of the section
\* (True, False, exception) frees the lock, and a call with a position off the
\* grid returns False without touching the lock.
C30_LockDiscipline ==
    /\ [](Cardinality({t \in Threads : InSection(t)}) <= 1)
    /\ [](\A t \in Threads : (lock = t) <=> InSection(t))
    /\ [][\A t \in Threads :
            (InSection(t) /\ ~InSection(t)')
            => /\ lock' = NoThread
               /\ pc'[t] = "done"
               /\ ret'[t] \in {"True", "False", "Raised"}]_vars
    /\ [][\A t \in Threads :
            (/\ pc[t] = "idle" /\ call'[t].op = "mem_book"
             /\ OffGrid(call'[t].row, call'[t].col))
            => lock' = lock /\ pc'[t] = "done" /\ ret'[t] = "False"]_vars

\* one call left the section by an exception, another was rejected for its
\* position, and the lock is free
C30_Witness ==
    \E t, u \in Threads :
        /\ call[t].op = "mem_book" /\ pc[t] = "done" /\ ret[t] = "Raised"
        /\ call[u].op = "mem_book" /\ pc[u] = "done" /\ ret[u] = "False"
        /\ OffGrid(call[u].row, call[u].col)
        /\ lock = NoThread

\* the seat of the database call of thread t
SeatOf(t) == <<call[t].movie_id, call[t].row, call[t].col>>

\* thread t's database call commits and returns True in this step
Succeeds(t) ==
    /\ call[t].op \in {"book", "cancel"}
    /\ pc[t] # "done" /\ pc'[t] = "done" /\ ret'[t] = "True"

\* C31: a book or cancel that succeeds leaves its own cell BOOKED (book) or
\* AVAILABLE (cancel) and adds or removes rows of that cell only; a seat
\* status, the rows of a seat or a cell of the in-memory grid change only in
\* the step of a successful call on that very cell.
C31_OnlyOwnCellChanges ==
    /\ [][\A t \in Threads :
            Succeeds(t)
            => /\ seats'[SeatOf(t)] = (IF call[t].op = "book" THEN BOOKED ELSE AVAILABLE)
               /\ \A b \in (bookings' \ bookings) \cup (bookings \ bookings') :
                     <<b.movie_id, b.row, b.col>> = SeatOf(t)
               /\ call[t].op = "book" => Cardinality(bookings' \ bookings) = 1 /\ bookings \subseteq bookings'
               /\ call[t].op = "cancel" => bookings' \subseteq bookings
               /\ \A k \in SeatKeys : k # SeatOf(t) => seats'[k] = seats[k]]_vars
    /\ [][\A k \in SeatKeys :
            (\/ seats'[k] # seats[k]
             \/ RecordsOf(bookings', k[1], k[2], k[3]) # RecordsOf(bookings, k[1], k[2], k[3]))
            => \E t \in Threads : Succeeds(t) /\ SeatOf(t) = k]_vars
    /\ [][\A k \in Cells :
            seat_map'[k] # seat_map[k]
            => \E t \in Threads :
                 /\ call[t].op = "mem_book" /\ <<call[t].row, call[t].col>> = k
                 /\ ret'[t] = "True" /\ seat_map'[k] = 1]_vars

\* seat (1, 4, 0) is BOOKED with its row after a cancel of seat (1, 0, 0) has
\* succeeded, and cell (4, 0) of the in-memory grid is booked after a book of
\* cell (0, 0) has succeeded
C31_Witness ==
    \E t, u \in Threads :
        /\ call[t].op = "cancel" /\ pc[t] = "done" /\ ret[t] = "True"
        /\ SeatOf(t) = <<1, 0, 0>>
        /\ seats[<<1, 4, 0>>] = BOOKED /\ RecordsOf(bookings, 1, 4, 0) # {}
        /\ seats[<<1, 0, 0>>] = AVAILABLE
        /\ call[u].op = "mem_book" /\ pc[u] = "done" /\ ret[u] = "True"
        /\ call[u].row = 0 /\ call[u].col = 0
        /\ seat_map[<<4, 0>>] = 1

\* C32: init_database on an empty database creates the 25 seat rows of each
\* of the two movies, all with status 0, and no booking row; on a populated
\* database it changes no seat row and no booking row, and running it twice
\* gives what running it once gives.
C32_InitDatabaseIdempotent ==
    /\ [](init_database(init_database(seats)) = init_database(seats))
    /\ [][(last.op = "crash" /\ last'.op = "start")
            => /\ bookings' = bookings
               /\ IF DOMAIN seats = {}
                    THEN /\ DOMAIN seats' = {1, 2} \X (0 .. 4) \X (0 .. 4)
                         /\ \A k \in DOMAIN seats' : seats'[k] = 0
                         /\ bookings' = {}
                    ELSE seats' = seats]_vars

\* the server has started again on a database that holds a booking
C32_Witness ==
    /\ last.op = "start" /\ last.populated
    /\ \A t \in Threads : pc[t] = "idle"
    /\ \E k \in DOMAIN seats : seats[k] = BOOKED
    /\ bookings # {}

\* a book request with an existing movie, a position on the grid and three
\* non-empty texts
Complete(req) ==
    /\ req.movie_id.kind = "num" /\ req.movie_id.n \in {1, 2}
    /\ req.row.kind = "num" /\ req.row.n \in 0 .. 4
    /\ req.col.kind = "num" /\ req.col.n \in 0 .. 4
    /\ req.customer_name.kind = "str" /\ req.customer_name.s # <<>>
    /\ req.customer_email.kind = "str" /\ req.customer_email.s # <<>>
    /\ req.customer_phone.kind = "str" /\ req.customer_phone.s # <<>>

\* C33: /api/book passes every request with an existing movie id, row and col
\* in 0..4 (0 included) and non-empty name, email and phone on to
\* database.book_seat, with exactly the six values of the request.
C33_CompleteRequestReachesEngine ==
    \A t \in Threads :
        (call[t].op \in {"book", "rejected"} /\ call[t].via = "http" /\ Complete(call[t].req))
        => /\ call[t].op = "book"
           /\ call[t].movie_id = call[t].req.movie_id.n
           /\ call[t].row = call[t].req.row.n
           /\ call[t].col = call[t].req.col.n
           /\ call[t].customer.name = call[t].req.customer_name.s
           /\ call[t].customer.email = call[t].req.customer_email.s
           /\ call[t].customer.phone = call[t].req.customer_phone.s

\* a request for row 0, col 0 went through /api/book, was booked, and the
\* booking row carries its values; another one with a padded name is stored
\* as sent
C33_Witness ==
    /\ \E t \in Threads :
          /\ call[t].op = "book" /\ call[t].via = "http" /\ pc[t] = "done" /\ ret[t] = "True"
          /\ call[t].req.row.n = 0 /\ call[t].req.col.n = 0
          /\ \E b \in bookings :
                /\ <<b.movie_id, b.row, b.col>> = <<call[t].req.movie_id.n, 0, 0>>
                /\ b.customer_name = call[t].req.customer_name.s
    /\ \E b \in bookings : b.customer_name = Padded /\ b.row = 4
====
